---- MODULE Spec2Model ----
(***************************************************************************)
(* Model of jtools.py: Jalali <-> Gregorian conversion, leap test,         *)
(* days-in-month, day-of-year, the jstrftime formatter, the month grid     *)
(* built by render_month, the side-by-side layout of render_multi_month    *)
(* and the -d FMT;STRING branch of cmd_date.                               *)
(*                                                                         *)
(* Python's // and % with a positive divisor are floor division and the    *)
(* non-negative remainder, which is what \div and % are on Integers.       *)
(* A Python call either returns a value or raises: a result is the record  *)
(* [kind |-> "ok", val |-> v] or [kind |-> <exception class>, val |-> <<>>].*)
(***************************************************************************)
EXTENDS Integers, Sequences, FiniteSets, TLC

VARIABLES
    pc,     \* position of the running call
    op,     \* the function called
    args,   \* its arguments
    res,    \* its return value or the exception it raised
    rm,     \* locals of render_month: base_shift, jdm, first_col, grid, r, c, day
    mm,     \* locals of render_multi_month: i, blocks, and the months rendered
    cd      \* locals of cmd_date: fmt, val, nums, order, tokens, the parsed
            \* fields, t, and what was printed

vars == <<pc, op, args, res, rm, mm, cd>>

\* ---------------------------------------------------------------- bounds
MinJYear == 1300
MaxJYear == 1450
MinGYear == 1900
MaxGYear == 2100
MaxMonthArg == 14
MaxDayArg == 32
MinRenderYear == 1399
MaxRenderYear == 1408
MaxFmtLen == 3
MaxCount == 14
MaxMargin == 2
MaxDateTokens == 3
MaxDateRuns == 3

JYears == MinJYear..MaxJYear
GYears == MinGYear..MaxGYear
MonthArgs == 0..MaxMonthArg
DayArgs == 0..MaxDayArg
RenderYears == MinRenderYear..MaxRenderYear

\* ---------------------------------------------------------------- results
Ok(v) == [kind |-> "ok", val |-> v]

Raise(e) == [kind |-> e, val |-> <<>>]

NoResult == [kind |-> "none", val |-> <<>>]

\* the locals of render_month while it is not running
NoFrame == [base_shift |-> 0, jdm |-> 0, first_col |-> 0, grid |-> <<>>,
            r |-> 0, c |-> 0, day |-> 0]

\* the locals of render_multi_month while it is not running
NoMulti == [i |-> 0, blocks |-> <<>>, months |-> <<>>]

\* cmd_date before the call: no locals bound, nothing printed
NoDate == [fmt |-> <<>>, val |-> <<>>, nums |-> <<>>, order |-> <<>>,
           tokens |-> <<>>, parsed |-> <<>>, t |-> [days |-> 0, secs |-> 0],
           stdout |-> <<>>]

\* ------------------------------------------- names, digits, constants
\* A string is a sequence of characters; a character outside printable
\* ASCII is written by its code point ("U+06F0" is the Persian digit zero,
\* "ESC" is \033).
JALALI_MONTHS_EN == <<
    <<"F", "a", "r", "v", "a", "r", "d", "i", "n">>,
    <<"O", "r", "d", "i", "b", "e", "h", "e", "s", "h", "t">>,
    <<"K", "h", "o", "r", "d", "a", "a", "d">>,
    <<"T", "i", "r">>,
    <<"M", "o", "r", "d", "a", "a", "d">>,
    <<"S", "h", "a", "h", "r", "i", "v", "a", "r">>,
    <<"M", "e", "h", "r">>,
    <<"A", "a", "b", "a", "a", "n">>,
    <<"A", "a", "z", "a", "r">>,
    <<"D", "e", "y">>,
    <<"B", "a", "h", "m", "a", "n">>,
    <<"E", "s", "f", "a", "n", "d">>
>>

JALALI_MONTHS_FA == <<
    <<"U+0641", "U+0631", "U+0648", "U+0631", "U+062F", "U+06CC", "U+0646">>,
    <<"U+0627", "U+0631", "U+062F", "U+06CC", "U+0628", "U+0647", "U+0634", "U+062A">>,
    <<"U+062E", "U+0631", "U+062F", "U+0627", "U+062F">>,
    <<"U+062A", "U+06CC", "U+0631">>,
    <<"U+0645", "U+0631", "U+062F", "U+0627", "U+062F">>,
    <<"U+0634", "U+0647", "U+0631", "U+06CC", "U+0648", "U+0631">>,
    <<"U+0645", "U+0647", "U+0631">>,
    <<"U+0622", "U+0628", "U+0627", "U+0646">>,
    <<"U+0622", "U+0630", "U+0631">>,
    <<"U+062F", "U+06CC">>,
    <<"U+0628", "U+0647", "U+0645", "U+0646">>,
    <<"U+0627", "U+0633", "U+0641", "U+0646", "U+062F">>
>>

JALALI_MONTHS_3_EN == <<
    <<"F", "a", "r">>,
    <<"O", "r", "d">>,
    <<"K", "h", "o">>,
    <<"T", "i", "r">>,
    <<"M", "o", "r">>,
    <<"S", "h", "a">>,
    <<"M", "e", "h">>,
    <<"A", "b", "a">>,
    <<"A", "z", "a">>,
    <<"D", "e", "y">>,
    <<"B", "a", "h">>,
    <<"E", "s", "f">>
>>

JALALI_MONTHS_3_FA == <<
    <<"U+0641", "U+0631", "U+0648">>,
    <<"U+0627", "U+0631", "U+062F">>,
    <<"U+062E", "U+0631", "U+062F">>,
    <<"U+062A", "U+06CC", "U+0631">>,
    <<"U+0645", "U+0631", "U+062F">>,
    <<"U+0634", "U+0647", "U+0631">>,
    <<"U+0645", "U+0647", "U+0631">>,
    <<"U+0622", "U+0628", "U+0627">>,
    <<"U+0622", "U+0630", "U+0631">>,
    <<"U+062F", "U+06CC">>,
    <<"U+0628", "U+0647", "U+0645">>,
    <<"U+0627", "U+0633", "U+0641">>
>>

JALALI_DAYS_EN == <<
    <<"S", "a", "t", "u", "r", "d", "a", "y">>,
    <<"S", "u", "n", "d", "a", "y">>,
    <<"M", "o", "n", "d", "a", "y">>,
    <<"T", "u", "e", "s", "d", "a", "y">>,
    <<"W", "e", "d", "n", "e", "s", "d", "a", "y">>,
    <<"T", "h", "u", "r", "s", "d", "a", "y">>,
    <<"F", "r", "i", "d", "a", "y">>
>>

JALALI_DAYS_3_EN == <<
    <<"S", "a", "t">>,
    <<"S", "u", "n">>,
    <<"M", "o", "n">>,
    <<"T", "u", "e">>,
    <<"W", "e", "d">>,
    <<"T", "h", "u">>,
    <<"F", "r", "i">>
>>

JALALI_DAYS_2_EN == <<
    <<"S", "a">>,
    <<"S", "u">>,
    <<"M", "o">>,
    <<"T", "u">>,
    <<"W", "e">>,
    <<"T", "h">>,
    <<"F", "r">>
>>

JALALI_DAYS_FA_LAT == <<
    <<"S", "h", "a", "n", "b", "e", "h">>,
    <<"Y", "e", "k", "-", "S", "h", "a", "n", "b", "e", "h">>,
    <<"D", "o", "-", "S", "h", "a", "n", "b", "e", "h">>,
    <<"S", "e", "h", "-", "S", "h", "a", "n", "b", "e", "h">>,
    <<"C", "h", "a", "h", "a", "a", "r", "-", "S", "h", "a", "n", "b", "e", "h">>,
    <<"P", "a", "n", "j", "-", "S", "h", "a", "n", "b", "e", "h">>,
    <<"J", "o", "m", "e", "h">>
>>

JALALI_DAYS_3_FA_LAT == <<
    <<"S", "h", "a">>,
    <<"Y", "e", "k">>,
    <<"D", "o", "s">>,
    <<"S", "e", "s">>,
    <<"C", "h", "a">>,
    <<"P", "a", "n">>,
    <<"J", "o", "m">>
>>

JALALI_DAYS_FA == <<
    <<"U+0634", "U+0646", "U+0628", "U+0647">>,
    <<"U+06CC", "U+06A9", "U+0634", "U+0646", "U+0628", "U+0647">>,
    <<"U+062F", "U+0648", "U+0634", "U+0646", "U+0628", "U+0647">>,
    <<"U+0633", "U+0647", "U+200C", "U+0634", "U+0646", "U+0628", "U+0647">>,
    <<"U+0686", "U+0647", "U+0627", "U+0631", "U+0634", "U+0646", "U+0628", "U+0647">>,
    <<"U+067E", "U+0646", "U+062C", "U+0634", "U+0646", "U+0628", "U+0647">>,
    <<"U+062C", "U+0645", "U+0639", "U+0647">>
>>

JALALI_DAYS_3_FA == <<
    <<"U+0634", "U+0646", "U+0628">>,
    <<"U+06CC", "U+06A9", "U+0634">>,
    <<"U+062F", "U+0648", "U+0634">>,
    <<"U+0633", "U+0647", "U+0634">>,
    <<"U+0686", "U+0647", "U+0627">>,
    <<"U+067E", "U+0646", "U+062C">>,
    <<"U+062C", "U+0645", "U+0639">>
>>

JALALI_DAYS_2_FA == <<
    <<"U+0634", "U+0646">>,
    <<"U+06CC", "U+06A9">>,
    <<"U+062F", "U+0648">>,
    <<"U+0633", "U+0647">>,
    <<"U+0686", "U+0647">>,
    <<"U+067E", "U+0646">>,
    <<"U+062C", "U+0645">>
>>

\* FARSI_DIGITS with a mistyped entry: '9' mapped to the glyph of 8
FARSI_DIGITS_mistyped ==
    ("0" :> "U+06F0") @@ ("1" :> "U+06F1") @@ ("2" :> "U+06F2") @@ ("3" :> "U+06F3") @@ ("4" :> "U+06F4") @@
    ("5" :> "U+06F5") @@ ("6" :> "U+06F6") @@ ("7" :> "U+06F7") @@ ("8" :> "U+06F8") @@ ("9" :> "U+06F8") @@ ("-" :> "-") @@ (" " :> " ")

FARSI_DIGITS ==
    ("0" :> "U+06F0") @@ ("1" :> "U+06F1") @@ ("2" :> "U+06F2") @@ ("3" :> "U+06F3") @@ ("4" :> "U+06F4") @@
    ("5" :> "U+06F5") @@ ("6" :> "U+06F6") @@ ("7" :> "U+06F7") @@ ("8" :> "U+06F8") @@ ("9" :> "U+06F9") @@ ("-" :> "-") @@ (" " :> " ")

ANSI == [
    reset |-> <<"ESC", "[", "0", "m">>,
    bold |-> <<"ESC", "[", "1", "m">>,
    white |-> <<"ESC", "[", "3", "7", "m">>,
    red |-> <<"ESC", "[", "3", "1", "m">>,
    bg_white |-> <<"ESC", "[", "4", "7", "m">>,
    fg_black |-> <<"ESC", "[", "3", "0", "m">>
]

\* ------------------------------------------------- Jalali <-> Gregorian
\* _is_greg_leap without the century rule
_is_greg_leap_every_fourth(y) == y % 4 = 0

_is_greg_leap(y) == (y % 4 = 0) /\ (y % 100 # 0 \/ y % 400 = 0)

g_md == <<31, 28, 31, 30, 31, 30, 31, 31, 30, 31, 30, 31>>

\* for i in range(n): acc += g_md[i]   (n <= 12, `i` is 0-based)
RECURSIVE SumGmd(_)
SumGmd(n) == IF n <= 0 THEN 0 ELSE SumGmd(n - 1) + g_md[n]

\* the tail of g2j: from the Jalali day number to (jy, jm, jd)
G2JFromDayNo(j_day_no0) ==
    LET j_np  == j_day_no0 \div 12053
        dn1   == j_day_no0 % 12053
        jyA   == 979 + 33 * j_np + 4 * (dn1 \div 1461)
        dn2   == dn1 % 1461
        jy    == IF dn2 >= 366 THEN jyA + ((dn2 - 1) \div 365) ELSE jyA
        dn3   == IF dn2 >= 366 THEN (dn2 - 1) % 365 ELSE dn2
        jm    == IF dn3 < 186 THEN (dn3 \div 31) + 1 ELSE ((dn3 - 186) \div 30) + 7
        jd    == IF dn3 < 186 THEN (dn3 % 31) + 1 ELSE ((dn3 - 186) % 30) + 1
    IN  <<jy, jm, jd>>

g2j(gy, gm, gd) ==
    LET gy2 == gy - 1600
        gm2 == gm - 1
        gd2 == gd - 1
        base == 365 * gy2 + ((gy2 + 3) \div 4) - ((gy2 + 99) \div 100)
                 + ((gy2 + 399) \div 400)
    IN  IF gm2 > 12
        THEN Raise("IndexError")     \* g_md[12] in the month loop
        ELSE LET g_day_no == base + SumGmd(gm2)
                              + (IF gm2 > 1 /\ _is_greg_leap(gy) THEN 1 ELSE 0)
                              + gd2
             IN  Ok(G2JFromDayNo(g_day_no - 79))

\* for i in range(jm2): j_day_no += 31 if i < 6 else 30
\* (the total the loop reaches: 31 for each i in 0..5, 30 for each later i)
SumJmd(n) ==
    IF n <= 0 THEN 0
    ELSE IF n <= 6 THEN 31 * n
    ELSE (31 * 6) + (30 * (n - 6))

\* the head of j2g: the Jalali day number of (jy, jm, jd)
JDayNo(jy, jm, jd) ==
    LET jy2 == jy - 979
    IN  365 * jy2 + (jy2 \div 33) * 8 + (((jy2 % 33) + 3) \div 4)
          + SumJmd(jm - 1) + (jd - 1)

\* while gm < 12 and g_day_no >= g_md[gm]: g_day_no -= g_md[gm]; gm += 1
RECURSIVE MonthLoop(_, _, _)
MonthLoop(md, gm, g_day_no) ==
    IF gm < 12 /\ g_day_no >= md[gm + 1]
    THEN MonthLoop(md, gm + 1, g_day_no - md[gm + 1])
    ELSE <<gm, g_day_no>>

j2g(jy, jm, jd) ==
    LET g0   == JDayNo(jy, jm, jd) + 79
        gyA  == 1600 + 400 * (g0 \div 146097)
        g1   == g0 % 146097
        cent == g1 >= 36525
        g2   == g1 - 1
        gyB  == IF cent THEN gyA + 100 * (g2 \div 36524) ELSE gyA
        g3   == g2 % 36524
        g4   == IF cent THEN (IF g3 >= 365 THEN g3 + 1 ELSE g3) ELSE g1
        leap1 == IF cent /\ g3 < 365 THEN FALSE ELSE TRUE
        gyC  == gyB + 4 * (g4 \div 1461)
        g5   == g4 % 1461
        late == g5 >= 366
        leap == IF late THEN FALSE ELSE leap1
        gyD  == IF late THEN gyC + ((g5 - 1) \div 365) ELSE gyC
        g6   == IF late THEN (g5 - 1) % 365 ELSE g5
        md   == [g_md EXCEPT ![2] = IF leap THEN 29 ELSE 28]
        ml   == MonthLoop(md, 0, g6)
    IN  Ok(<<gyD, ml[1] + 1, ml[2] + 1>>)

is_jalali_leap(jy) ==
    IF j2g(jy, 12, 30).kind = "ok" THEN TRUE ELSE FALSE

\* jalali_days_in_month with the first-half boundary off by one (jm <= 7)
jalali_days_in_month_off_by_one(jy, jm) ==
    IF jm < 1 \/ jm > 12 THEN Raise("ValueError")
    ELSE IF jm <= 7 THEN Ok(31)
    ELSE IF jm <= 11 THEN Ok(30)
    ELSE Ok(IF is_jalali_leap(jy) THEN 30 ELSE 29)

jalali_days_in_month(jy, jm) ==
    IF jm < 1 \/ jm > 12 THEN Raise("ValueError")
    ELSE IF jm <= 6 THEN Ok(31)
    ELSE IF jm <= 11 THEN Ok(30)
    ELSE Ok(IF is_jalali_leap(jy) THEN 30 ELSE 29)

jalali_yday(jy, jm, jd) ==
    IF jm <= 6 THEN (jm - 1) * 31 + jd - 1
    ELSE (6 * 31) + (jm - 7) * 30 + jd - 1

\* Saturday=0 ... Friday=6 from Python's Monday=0 ... Sunday=6
greg_weekday_to_jalali_wday(py_weekday) == (py_weekday + 2) % 7

\* ------------------------------------------------------ datetime.date
\* _dt.date(y, m, d).weekday() of the standard library: the constructor
\* raises ValueError on an invalid date, weekday() is (toordinal() + 6) % 7.
PyDaysInMonth(y, m) ==
    IF m = 2 /\ (y % 4 = 0) /\ (y % 100 # 0 \/ y % 400 = 0) THEN 29
    ELSE <<31, 28, 31, 30, 31, 30, 31, 31, 30, 31, 30, 31>>[m]

RECURSIVE PyDaysBeforeMonth(_, _)
PyDaysBeforeMonth(y, m) ==
    IF m <= 1 THEN 0 ELSE PyDaysBeforeMonth(y, m - 1) + PyDaysInMonth(y, m - 1)

PyToOrdinal(y, m, d) ==
    LET y1 == y - 1
    IN  y1 * 365 + (y1 \div 4) - (y1 \div 100) + (y1 \div 400)
          + PyDaysBeforeMonth(y, m) + d

PyDateWeekday(y, m, d) ==
    IF y < 1 \/ y > 9999 \/ m < 1 \/ m > 12 \/ d < 1 \/ d > PyDaysInMonth(y, m)
    THEN Raise("ValueError")
    ELSE Ok((PyToOrdinal(y, m, d) + 6) % 7)

\* ---------------------------------------------------------- strings
DigitChars == <<"0", "1", "2", "3", "4", "5", "6", "7", "8", "9">>

\* str(n) for n >= 0
RECURSIVE Str(_)
Str(n) == IF n < 10 THEN <<DigitChars[n + 1]>>
          ELSE Str(n \div 10) \o <<DigitChars[(n % 10) + 1]>>

\* f"{n:0wd}" for n >= 0
RECURSIVE ZeroPad(_, _)
ZeroPad(s, w) == IF Len(s) >= w THEN s ELSE ZeroPad(<<"0">> \o s, w)

Fmt0(n, w) == ZeroPad(Str(n), w)

\* ''.join(FARSI_DIGITS.get(ch, ch) for ch in str(s))
to_farsi_digits(s) ==
    [i \in 1..Len(s) |-> IF s[i] \in DOMAIN FARSI_DIGITS THEN FARSI_DIGITS[s[i]]
                         ELSE s[i]]

\* s.replace(k, v): left to right, non-overlapping occurrences of k
RECURSIVE StrReplace(_, _, _)
StrReplace(s, k, v) ==
    IF Len(s) < Len(k) THEN s
    ELSE IF SubSeq(s, 1, Len(k)) = k
         THEN v \o StrReplace(SubSeq(s, Len(k) + 1, Len(s)), k, v)
         ELSE <<s[1]>> \o StrReplace(Tail(s), k, v)

\* sep.join(parts)
RECURSIVE StrJoin(_, _)
StrJoin(sep, parts) ==
    IF parts = <<>> THEN <<>>
    ELSE IF Len(parts) = 1 THEN parts[1]
    ELSE parts[1] \o sep \o StrJoin(sep, Tail(parts))

\* n copies of the character ch
Fill(ch, n) == [i \in 1..n |-> ch]

\* s.center(width): str.center pads with marg // 2 + (marg & width & 1)
\* spaces on the left and the rest on the right
StrCenter(s, width) ==
    IF Len(s) >= width THEN s
    ELSE LET marg == width - Len(s)
             left == (marg \div 2) + (IF marg % 2 = 1 /\ width % 2 = 1 THEN 1 ELSE 0)
         IN  Fill(" ", left) \o s \o Fill(" ", marg - left)

\* f"{n:2d}" for n >= 0
Fmt2d(n) == LET t == Str(n) IN Fill(" ", 2 - Len(t)) \o t

\* ----------------------------------------------------------- jstrftime
\* A datetime is [year, month, day, hour, minute, second, tzinfo]; tzinfo
\* is NoTz or [name, off] with off the UTC offset in seconds.  The host's
\* local zone (time.tzname[0] and the current local offset) is `local`.
NoTz == [name |-> <<>>, off |-> 0, aware |-> FALSE]

Tz(name, off) == [name |-> name, off |-> off, aware |-> TRUE]

\* the keys of `mapping` in insertion order; all have length 2, so the
\* stable sort by descending length keeps this order
MappingKeys == <<"Y", "m", "d", "H", "M", "S", "a", "A", "b", "B", "j", "u",
                 "w", "D", "F", "T", "R", "x", "X", "%", "Z", "z", "c", "g",
                 "G", "v", "V", "W", "E", "O", "p", "P">>

Mapping(dt, lang, local) ==
    LET j == g2j(dt.year, dt.month, dt.day).val
        jy == j[1]
        jm == j[2]
        jd == j[3]
        jalali_wday ==
            greg_weekday_to_jalali_wday(PyDateWeekday(dt.year, dt.month, dt.day).val)
        day_full == IF lang = "fa" THEN JALALI_DAYS_FA[jalali_wday + 1]
                    ELSE JALALI_DAYS_EN[jalali_wday + 1]
        day_abbr == IF lang = "fa" THEN JALALI_DAYS_3_FA[jalali_wday + 1]
                    ELSE JALALI_DAYS_3_EN[jalali_wday + 1]
        mon_full == IF lang = "fa" THEN JALALI_MONTHS_FA[jm]
                    ELSE JALALI_MONTHS_EN[jm]
        mon_abbr == IF lang = "fa" THEN JALALI_MONTHS_3_FA[jm]
                    ELSE JALALI_MONTHS_3_EN[jm]
        hh == Fmt0(dt.hour, 2)
        mi == Fmt0(dt.minute, 2)
        ss == Fmt0(dt.second, 2)
        tzname == IF dt.tzinfo.aware THEN dt.tzinfo.name ELSE local.name
        off == IF dt.tzinfo.aware THEN dt.tzinfo.off ELSE local.off
        sign == IF off >= 0 THEN "+" ELSE "-"
        off_m == off \div 60
        total_m == IF off_m < 0 THEN -off_m ELSE off_m
    IN  [k \in {MappingKeys[i] : i \in 1..Len(MappingKeys)} |->
         CASE k = "Y" -> Fmt0(jy, 4)
           [] k = "m" -> Fmt0(jm, 2)
           [] k = "d" -> Fmt0(jd, 2)
           [] k = "H" -> hh
           [] k = "M" -> mi
           [] k = "S" -> ss
           [] k = "a" -> day_abbr
           [] k = "A" -> day_full
           [] k = "b" -> mon_abbr
           [] k = "B" -> mon_full
           [] k = "j" -> Fmt0(jalali_yday(jy, jm, jd) + 1, 3)
           [] k = "u" -> Str(jalali_wday + 1)
           [] k = "w" -> Str(jalali_wday)
           [] k = "D" -> Str(jy) \o <<"/">> \o Fmt0(jm, 2) \o <<"/">> \o Fmt0(jd, 2)
           [] k = "F" -> Str(jy) \o <<"-">> \o Fmt0(jm, 2) \o <<"-">> \o Fmt0(jd, 2)
           [] k = "T" -> hh \o <<":">> \o mi \o <<":">> \o ss
           [] k = "R" -> hh \o <<":">> \o mi
           [] k = "x" -> Fmt0(jd, 2) \o <<"/">> \o Fmt0(jm, 2) \o <<"/">> \o Str(jy)
           [] k = "X" -> hh \o <<":">> \o mi \o <<":">> \o ss
           [] k = "%" -> <<"%">>
           [] k = "Z" -> tzname
           [] k = "z" -> <<sign>> \o Fmt0(total_m \div 60, 2) \o Fmt0(total_m % 60, 2)
           [] k = "c" -> day_abbr \o <<" ">> \o mon_abbr \o <<" ">> \o Fmt0(jd, 2)
                         \o <<" ">> \o hh \o <<":">> \o mi \o <<":">> \o ss
                         \o <<" ">> \o tzname \o <<" ">> \o Str(jy)
           [] k = "g" -> JALALI_DAYS_3_FA[jalali_wday + 1]
           [] k = "G" -> JALALI_DAYS_FA[jalali_wday + 1]
           [] k = "v" -> JALALI_MONTHS_3_FA[jm]
           [] k = "V" -> JALALI_MONTHS_FA[jm]
           [] k = "W" -> to_farsi_digits(Str(jy)) \o <<"/">>
                         \o to_farsi_digits(Fmt0(jm, 2)) \o <<"/">>
                         \o to_farsi_digits(Fmt0(jd, 2))
           [] k = "E" -> JALALI_DAYS_FA[jalali_wday + 1] \o <<" ">>
                         \o to_farsi_digits(Str(jd)) \o <<" ">>
                         \o JALALI_MONTHS_FA[jm] \o <<" ">>
                         \o to_farsi_digits(Str(jy))
                         \o <<"U+060C", " ", "U+0633", "U+0627", "U+0639", "U+062A", " ">>
                         \o to_farsi_digits(hh) \o <<":">> \o to_farsi_digits(mi)
                         \o <<":">> \o to_farsi_digits(ss) \o <<" ", "-", " ">>
                         \o (IF tzname = <<>> THEN <<"U", "T", "C">> ELSE tzname)
           [] k = "O" -> IF dt.hour < 12 THEN <<"U+0642", ".", "U+0638">>
                         ELSE <<"U+0628", ".", "U+0638">>
           [] k = "p" -> IF dt.hour < 12 THEN <<"A", "M">> ELSE <<"P", "M">>
           [] k = "P" -> IF dt.hour < 12 THEN <<"a", "m">> ELSE <<"p", "m">>]

\* for k in keys: out = out.replace(k, mapping[k])     (keys i..end)
RECURSIVE ReplaceKeys(_, _, _)
ReplaceKeys(out, mapping, i) ==
    IF i > Len(MappingKeys) THEN out
    ELSE ReplaceKeys(StrReplace(out, <<"%", MappingKeys[i]>>, mapping[MappingKeys[i]]),
                     mapping, i + 1)

jstrftime(fmt, dt, lang, farsi_digits, local) ==
    LET out == ReplaceKeys(fmt, Mapping(dt, lang, local), 1)
    IN  IF farsi_digits THEN to_farsi_digits(out) ELSE out

\* format patterns: every string of at most MaxFmtLen characters of FmtChars
FmtChars == {"%", "Y", "d", "p", "Z", "W", "7"}

Fmts == UNION {[1..n -> FmtChars] : n \in 0..MaxFmtLen}

DateTimes == {
    [year |-> 2011, month |-> 6, day |-> 7, hour |-> 12, minute |-> 0,
     second |-> 0, tzinfo |-> Tz(<<"U", "T", "C">>, 0)],
    [year |-> 1979, month |-> 2, day |-> 11, hour |-> 8, minute |-> 5,
     second |-> 9, tzinfo |-> NoTz],
    [year |-> 2026, month |-> 3, day |-> 20, hour |-> 23, minute |-> 59,
     second |-> 58, tzinfo |-> Tz(<<"+", "0", "3", "3", "0">>, 12600)],
    [year |-> 2000, month |-> 1, day |-> 1, hour |-> 0, minute |-> 0,
     second |-> 0, tzinfo |-> Tz(<<"E", "S", "T">>, -18000)] }

LocalZones == {Tz(<<"C", "E", "T">>, 3600)}

FmtInputs ==
    [fmt : Fmts, dt : DateTimes, lang : {"en", "fa"}, farsi_digits : BOOLEAN,
     local : LocalZones]

CallJstrftime ==
    /\ pc = "call" /\ op = "jstrftime"
    /\ res' = Ok(jstrftime(args.fmt, args.dt, args.lang, args.farsi_digits, args.local))
    /\ pc' = "done"
    /\ UNCHANGED <<op, args, rm, mm, cd>>

InitFmt ==
    /\ pc = "call"
    /\ op = "jstrftime"
    /\ args \in FmtInputs
    /\ res = NoResult
    /\ rm = NoFrame
    /\ mm = NoMulti
    /\ cd = NoDate

NextFmt == CallJstrftime

SpecFmt == InitFmt /\ [][NextFmt]_vars

\* ------------------------------------------------------- render_month
None == 0    \* an empty grid cell (day numbers start at 1)

\* a grid allocated with one row too few
GridRowsFive == 6 - 1

GridRows == 6

GridCols == 7

\* [[None for _ in range(7)] for _ in range(6)]
EmptyGrid == [row \in 0..(GridRows - 1) |-> [col \in 0..(GridCols - 1) |-> None]]

BaseShift(start_wday) ==
    IF start_wday = "sat" THEN 0
    ELSE IF start_wday = "sun" THEN 6
    ELSE IF start_wday = "mon" THEN 5
    ELSE 0

StartWdays == {"sat", "sun", "mon", "fri"}

\* the remaining keyword arguments of render_month
RenderOptions == {
    [highlight |-> None, show_julian |-> FALSE, lang |-> "en",
     farsi_digits |-> FALSE, color |-> TRUE],
    [highlight |-> 17, show_julian |-> FALSE, lang |-> "fa",
     farsi_digits |-> TRUE, color |-> TRUE],
    [highlight |-> 1, show_julian |-> TRUE, lang |-> "fa-lat",
     farsi_digits |-> FALSE, color |-> FALSE],
    [highlight |-> 30, show_julian |-> TRUE, lang |-> "en",
     farsi_digits |-> TRUE, color |-> TRUE],
    [highlight |-> None, show_julian |-> TRUE, lang |-> "fa",
     farsi_digits |-> FALSE, color |-> TRUE] }

RenderInputs ==
    [jy : RenderYears, jm : 0..13, start_wday : StartWdays, opt : RenderOptions]

\* the text of one grid cell
CellText(d, a) ==
    IF d = None THEN <<" ", " ">>
    ELSE LET text == IF a.opt.farsi_digits /\ a.opt.lang = "fa"
                     THEN to_farsi_digits(Fmt2d(d)) ELSE Fmt2d(d)
         IN  IF a.opt.highlight # None /\ d = a.opt.highlight /\ a.opt.color
             THEN ANSI.fg_black \o ANSI.bg_white \o text \o ANSI.reset
             ELSE text

\* titles and printing: the text block of a built grid
RenderText(a, grid) ==
    LET mname == IF a.opt.lang = "fa" THEN JALALI_MONTHS_FA[a.jm]
                 ELSE JALALI_MONTHS_EN[a.jm]
        days_hdr ==
            IF a.opt.lang = "fa"
            THEN (IF ~a.opt.show_julian THEN JALALI_DAYS_2_FA ELSE JALALI_DAYS_3_FA)
            ELSE IF a.opt.lang = "fa-lat" THEN JALALI_DAYS_3_FA_LAT
            ELSE (IF ~a.opt.show_julian THEN JALALI_DAYS_2_EN ELSE JALALI_DAYS_3_EN)
        title == IF a.opt.farsi_digits /\ a.opt.lang = "fa"
                 THEN mname \o <<" ">> \o to_farsi_digits(Str(a.jy))
                 ELSE mname \o <<" ">> \o Str(a.jy)
        hdr == StrJoin(<<" ">>, [i \in 1..7 |-> StrCenter(days_hdr[i], 2)])
        rows == [i \in 1..GridRows |->
                    StrJoin(<<" ">>, [k \in 1..GridCols |-> CellText(grid[i - 1][k - 1], a)])]
    IN  StrJoin(<<"\n">>, <<StrCenter(title, 20), hdr>> \o rows)

\* render_month up to the start of the fill loop
RenderMonthBegin ==
    /\ pc = "call" /\ op = "render_month"
    /\ LET base_shift == BaseShift(args.start_wday)
           dim == jalali_days_in_month(args.jy, args.jm)
           g_first == j2g(args.jy, args.jm, 1)
           wd == PyDateWeekday(g_first.val[1], g_first.val[2], g_first.val[3])
           first_jwday == greg_weekday_to_jalali_wday(wd.val)
           first_col == (first_jwday - base_shift) % 7
       IN  IF dim.kind # "ok"
           THEN /\ res' = dim
                /\ pc' = "raised"
                /\ rm' = [rm EXCEPT !.base_shift = base_shift]
           ELSE IF wd.kind # "ok"
           THEN /\ res' = wd
                /\ pc' = "raised"
                /\ rm' = [rm EXCEPT !.base_shift = base_shift, !.jdm = dim.val]
           ELSE /\ rm' = [base_shift |-> base_shift, jdm |-> dim.val,
                          first_col |-> first_col, grid |-> EmptyGrid,
                          r |-> 0, c |-> first_col, day |-> 1]
                /\ pc' = "fill"
                /\ res' = res
    /\ UNCHANGED <<op, args, mm, cd>>

\* one iteration of: for day in range(1, jdm + 1)
RenderMonthFill ==
    /\ pc = "fill"
    /\ rm.day <= rm.jdm
    /\ IF rm.r > GridRows - 1 \/ rm.c > GridCols - 1
       THEN /\ res' = Raise("IndexError")
            /\ pc' = "raised"
            /\ rm' = rm
       ELSE /\ rm' = [rm EXCEPT !.grid[rm.r][rm.c] = rm.day,
                                !.c = IF rm.c + 1 > 6 THEN 0 ELSE rm.c + 1,
                                !.r = IF rm.c + 1 > 6 THEN rm.r + 1 ELSE rm.r,
                                !.day = rm.day + 1]
            /\ pc' = pc
            /\ res' = res
    /\ UNCHANGED <<op, args, mm, cd>>

\* the loop is exhausted: titles, printing and return
RenderMonthReturn ==
    /\ pc = "fill"
    /\ rm.day > rm.jdm
    /\ res' = Ok(RenderText(args, rm.grid))
    /\ pc' = "done"
    /\ UNCHANGED <<op, args, rm, mm, cd>>

InitGrid ==
    /\ pc = "call"
    /\ op = "render_month"
    /\ args \in RenderInputs
    /\ res = NoResult
    /\ rm = NoFrame
    /\ mm = NoMulti
    /\ cd = NoDate

NextGrid ==
    \/ RenderMonthBegin
    \/ RenderMonthFill
    \/ RenderMonthReturn

SpecGrid == InitGrid /\ [][NextGrid]_vars

\* ------------------------------------------------- render_multi_month
\* the fill loop of render_month run to its end
RECURSIVE FillLoop(_, _, _, _, _)
FillLoop(grid, r, c, day, jdm) ==
    IF day > jdm THEN Ok(grid)
    ELSE IF r > GridRows - 1 \/ c > GridCols - 1 THEN Raise("IndexError")
    ELSE FillLoop([grid EXCEPT ![r][c] = day],
                  IF c + 1 > 6 THEN r + 1 ELSE r,
                  IF c + 1 > 6 THEN 0 ELSE c + 1,
                  day + 1, jdm)

\* one whole call of render_month
render_month(a) ==
    LET dim == jalali_days_in_month(a.jy, a.jm)
        g_first == j2g(a.jy, a.jm, 1)
        wd == PyDateWeekday(g_first.val[1], g_first.val[2], g_first.val[3])
        first_col == (greg_weekday_to_jalali_wday(wd.val) - BaseShift(a.start_wday)) % 7
        filled == FillLoop(EmptyGrid, 0, first_col, 1, dim.val)
    IN  IF dim.kind # "ok" THEN dim
        ELSE IF wd.kind # "ok" THEN wd
        ELSE IF filled.kind # "ok" THEN filled
        ELSE Ok(RenderText(a, filled.val))

\* index of the first "\n" of s at or after position `from`, 0 if none
NextNewline(s, from) ==
    IF \E i \in from..Len(s) : s[i] = "\n"
    THEN CHOOSE i \in from..Len(s) :
            s[i] = "\n" /\ \A j \in from..(i - 1) : s[j] # "\n"
    ELSE 0

\* the lines of s from position `from` on
RECURSIVE SplitFrom(_, _)
SplitFrom(s, from) ==
    IF from > Len(s) THEN <<>>
    ELSE LET p == NextNewline(s, from)
         IN  IF p = 0 THEN <<SubSeq(s, from, Len(s))>>
             ELSE <<SubSeq(s, from, p - 1)>> \o SplitFrom(s, p + 1)

\* b.splitlines() for text whose only line boundary is "\n": the pieces
\* between newlines, without an empty piece after a final newline
SplitLines(s) == SplitFrom(s, 1)

\* max(heights); ValueError on an empty list
RECURSIVE MaxOf(_)
MaxOf(hs) ==
    IF Len(hs) = 1 THEN hs[1]
    ELSE LET m == MaxOf(Tail(hs)) IN IF hs[1] > m THEN hs[1] ELSE m

\* [b.splitlines() for b in blocks]
RECURSIVE SplitAll(_)
SplitAll(blocks) ==
    IF blocks = <<>> THEN <<>>
    ELSE <<SplitLines(Head(blocks))>> \o SplitAll(Tail(blocks))

\* [len(lines) for lines in lines_list]
RECURSIVE Heights(_)
Heights(lines_list) ==
    IF lines_list = <<>> THEN <<>>
    ELSE <<Len(Head(lines_list))>> \o Heights(Tail(lines_list))

\* while len(lines) < H: lines.append("")
RECURSIVE PadLines(_, _)
PadLines(lines, H) ==
    IF Len(lines) < H THEN PadLines(Append(lines, <<>>), H) ELSE lines

\* the padding loop over every block
RECURSIVE PadAll(_, _)
PadAll(lines_list, H) ==
    IF lines_list = <<>> THEN <<>>
    ELSE <<PadLines(Head(lines_list), H)>> \o PadAll(Tail(lines_list), H)

\* (lines[i] for lines in lines_list), i counted from 0
RECURSIVE LinesAt(_, _)
LinesAt(lines_list, i) ==
    IF lines_list = <<>> THEN <<>>
    ELSE <<Head(lines_list)[i + 1]>> \o LinesAt(Tail(lines_list), i)

\* for i in range(H): out_lines.append(space.join(...))   (from line i on)
RECURSIVE JoinLines(_, _, _, _)
JoinLines(lines_list, space, i, H) ==
    IF i >= H THEN <<>>
    ELSE <<StrJoin(space, LinesAt(lines_list, i))>>
           \o JoinLines(lines_list, space, i + 1, H)

\* the i-th block's month with the year never carried
BlockMonthNoCarry(jy, jm, i) ==
    IF jm + i <= 12 THEN <<jy, jm + i>>
    ELSE <<jy, ((jm + i - 1) % 12) + 1>>

\* the (year, month) passed to render_month for block i
BlockMonth(jy, jm, i) ==
    IF jm + i <= 12 THEN <<jy, jm + i>>
    ELSE <<jy + ((jm + i - 1) \div 12), ((jm + i - 1) % 12) + 1>>

MultiYears == {MinRenderYear, MaxRenderYear}

MultiKwargs == {
    [start_wday |-> "sat",
     opt |-> [highlight |-> None, show_julian |-> FALSE, lang |-> "en",
              farsi_digits |-> FALSE, color |-> TRUE]],
    [start_wday |-> "mon",
     opt |-> [highlight |-> 17, show_julian |-> FALSE, lang |-> "fa",
              farsi_digits |-> TRUE, color |-> TRUE]] }

MultiInputs ==
    [jy : MultiYears, jm : 0..13, count : 0..MaxCount, margin : 0..MaxMargin,
     kwargs : MultiKwargs]

\* one element of the list comprehension: render block mm.i
MultiRenderBlock ==
    /\ pc = "call" /\ op = "render_multi_month"
    /\ mm.i < args.count
    /\ LET ym == BlockMonth(args.jy, args.jm, mm.i)
           b == render_month([jy |-> ym[1], jm |-> ym[2],
                              start_wday |-> args.kwargs.start_wday,
                              opt |-> args.kwargs.opt])
       IN  IF b.kind # "ok"
           THEN /\ res' = b
                /\ pc' = "raised"
                /\ mm' = [mm EXCEPT !.months = Append(@, ym)]
           ELSE /\ mm' = [i |-> mm.i + 1, blocks |-> Append(mm.blocks, b.val),
                          months |-> Append(mm.months, ym)]
                /\ pc' = pc
                /\ res' = res
    /\ UNCHANGED <<op, args, rm, cd>>

\* split, normalize the heights, join with the margin and return
MultiJoin ==
    /\ pc = "call" /\ op = "render_multi_month"
    /\ mm.i >= args.count
    /\ IF mm.blocks = <<>>
       THEN /\ res' = Raise("ValueError")      \* max() of an empty list
            /\ pc' = "raised"
       ELSE LET lines_list == SplitAll(mm.blocks)
                H == MaxOf(Heights(lines_list))
                padded == PadAll(lines_list, H)
                space == Fill(" ", args.margin)
                out_lines == JoinLines(padded, space, 0, H)
            IN  /\ res' = Ok(StrJoin(<<"\n">>, out_lines))
                /\ pc' = "done"
    /\ UNCHANGED <<op, args, rm, mm, cd>>

InitMulti ==
    /\ pc = "call"
    /\ op = "render_multi_month"
    /\ args \in MultiInputs
    /\ res = NoResult
    /\ rm = NoFrame
    /\ mm = NoMulti
    /\ cd = NoDate

NextMulti ==
    \/ MultiRenderBlock
    \/ MultiJoin

SpecMulti == InitMulti /\ [][NextMulti]_vars

\* ------------------------------------------------- cmd_date, -d FMT;STRING
\* sys.exit(code)
Exit(code) == [kind |-> "SystemExit", val |-> <<code>>]

\* the value None of tokens["%Y"], tokens["%m"], tokens["%d"]
NoneTok == <<"None">>

\* the token letters of ["%Y", "%m", "%d", "%H", "%M", "%S"], in list order
DateKeys == <<"Y", "m", "d", "H", "M", "S">>

\* ("%" + k) in s
HasToken(s, k) == \E i \in 1..(Len(s) - 1) : s[i] = "%" /\ s[i + 1] = k

\* s.find(";") + 1
FindSemi(s) ==
    IF \E i \in 1..Len(s) : s[i] = ";"
    THEN CHOOSE i \in 1..Len(s) :
             s[i] = ";" /\ \A j \in 1..(i - 1) : s[j] # ";"
    ELSE 0

IsDigit(ch) == \E i \in 1..10 : DigitChars[i] = ch

\* re.findall(r"\d+", s) from position i on, `run` the digits read so far
RECURSIVE FindAllDigits(_, _, _)
FindAllDigits(s, i, run) ==
    IF i > Len(s) THEN (IF run = <<>> THEN <<>> ELSE <<run>>)
    ELSE IF IsDigit(s[i]) THEN FindAllDigits(s, i + 1, Append(run, s[i]))
    ELSE (IF run = <<>> THEN <<>> ELSE <<run>>) \o FindAllDigits(s, i + 1, <<>>)

\* [k for k in ["%Y", "%m", "%d", "%H", "%M", "%S"] if k in fmt]
TokenOrder(fmt) == SelectSeq(DateKeys, LAMBDA k : HasToken(fmt, k))

\* tokens after `for k, n in zip(order, nums): tokens[k] = n`
ZipTokens(order, nums) ==
    [k \in {"Y", "m", "d", "H", "M", "S"} |->
        IF \E i \in 1..Len(order) : i <= Len(nums) /\ order[i] = k
        THEN nums[CHOOSE i \in 1..Len(order) : order[i] = k]
        ELSE IF k \in {"Y", "m", "d"} THEN NoneTok ELSE <<"0">>]

\* int(s) for a string of decimal digits
RECURSIVE IntOfDigits(_)
IntOfDigits(s) ==
    IF s = <<>> THEN 0
    ELSE IntOfDigits(SubSeq(s, 1, Len(s) - 1)) * 10
           + ((CHOOSE i \in 1..10 : DigitChars[i] = s[Len(s)]) - 1)

\* int(tokens[k])
PyInt(s) == IF s = NoneTok THEN Raise("TypeError") ELSE Ok(IntOfDigits(s))

\* datetime.datetime(y, m, d, hour, minute, second)
PyDateTime(y, m, d, hour, minute, second) ==
    IF y < 1 \/ y > 9999 \/ m < 1 \/ m > 12 \/ d < 1 \/ d > PyDaysInMonth(y, m)
       \/ hour < 0 \/ hour > 23 \/ minute < 0 \/ minute > 59
       \/ second < 0 \/ second > 59
    THEN Raise("ValueError")
    ELSE Ok([year |-> y, month |-> m, day |-> d, hour |-> hour,
             minute |-> minute, second |-> second, tzinfo |-> NoTz])

jalali_to_datetime(jy, jm, jd, hour, minute, second) ==
    LET g == j2g(jy, jm, jd).val
    IN  PyDateTime(g[1], g[2], g[3], hour, minute, second)

UtcZone == Tz(<<"U", "T", "C">>, 0)

\* int(dt.timestamp()) of a datetime whose UTC offset is off seconds, as
\* whole days since 1970-01-01 and seconds into the day (t = days * 86400 + secs)
Timestamp(dt, off) ==
    LET s == (dt.hour * 3600) + (dt.minute * 60) + dt.second - off
    IN  [days |-> PyToOrdinal(dt.year, dt.month, dt.day) - PyToOrdinal(1970, 1, 1)
                    + (s \div 86400),
         secs |-> s % 86400]

\* datetime.date.fromordinal(n)
PyFromOrdinal(n) ==
    LET y == CHOOSE yy \in (n \div 366)..((n \div 365) + 1) :
                 PyToOrdinal(yy, 1, 1) <= n /\ n < PyToOrdinal(yy + 1, 1, 1)
        m == CHOOSE mo \in 1..12 :
                 /\ PyToOrdinal(y, mo, 1) <= n
                 /\ n < PyToOrdinal(y, mo, 1) + PyDaysInMonth(y, mo)
    IN  <<y, m, n - PyToOrdinal(y, m, 1) + 1>>

\* datetime.fromtimestamp(t) in a zone off seconds east of UTC
FromTimestamp(t, off, tzinfo) ==
    LET s == t.secs + off
        date == PyFromOrdinal(t.days + (s \div 86400) + PyToOrdinal(1970, 1, 1))
        secs == s % 86400
    IN  [year |-> date[1], month |-> date[2], day |-> date[3],
         hour |-> secs \div 3600, minute |-> (secs % 3600) \div 60,
         second |-> secs % 60, tzinfo |-> tzinfo]

\* fmt = args.format; if fmt.startswith("+"): fmt = fmt[1:]
StripPlus(fmt) == IF fmt # <<>> /\ fmt[1] = "+" THEN Tail(fmt) ELSE fmt

\* output formats given on the command line
DateFormats == {<<"+", "%", "Y", "/", "%", "m", "/", "%", "d">>,
                <<"%", "H", ":", "%", "M", ":", "%", "S">>}

\* FMT patterns: up to MaxDateTokens distinct tokens separated by "/", and
\* two full date-and-time patterns
DateTokenSeqs ==
    {ts \in UNION {[1..n -> {"Y", "m", "d", "H"}] : n \in 0..MaxDateTokens} :
        \A i, j \in 1..Len(ts) : i # j => ts[i] # ts[j]}
    \cup {DateKeys, <<"H", "M", "S", "Y", "m", "d">>}

FormatOf(ts) == StrJoin(<<"/">>, [i \in 1..Len(ts) |-> <<"%", ts[i]>>])

\* STRING values: up to MaxDateRuns numeric runs separated by "/", and two
\* values of six runs
DateRuns == {<<"1", "3", "9", "0">>, <<"1", "7">>, <<"0", "3">>}

DateRunSeqs ==
    UNION {[1..n -> DateRuns] : n \in 0..MaxDateRuns}
    \cup {<<(<<"1", "3", "9", "0">>), (<<"0", "3">>), (<<"1", "7">>),
            (<<"1", "0">>), (<<"2", "0">>), (<<"3", "0">>)>>,
          <<(<<"1", "0">>), (<<"2", "0">>), (<<"3", "0">>),
            (<<"1", "3", "9", "0">>), (<<"0", "3">>), (<<"1", "7">>)>>}

\* args.date: FMT;STRING, or FMT alone
DateArgs ==
    {FormatOf(ts) \o <<";">> \o StrJoin(<<"/">>, rs) :
        <<ts, rs>> \in DateTokenSeqs \X DateRunSeqs}
    \cup {FormatOf(ts) : ts \in DateTokenSeqs}

\* args of `date -d FMT;STRING +FORMAT`: no -z and no -R; `local` is the
\* host's zone
DateInputs ==
    [date : DateArgs, utc : BOOLEAN, format : DateFormats, lang : {"en"},
     farsi_digits : {FALSE}, local : LocalZones]

\* if ";" in args.date: fmt, val = args.date.split(";", 1)  else exit 2
CmdDateSplit ==
    /\ pc = "call" /\ op = "cmd_date"
    /\ LET p == FindSemi(args.date)
       IN  IF p = 0
           THEN /\ cd' = [cd EXCEPT !.stdout =
                             Append(@, <<"Use ';' to separate format and date string">>)]
                /\ res' = Exit(2)
                /\ pc' = "exited"
           ELSE /\ cd' = [cd EXCEPT !.fmt = SubSeq(args.date, 1, p - 1),
                                    !.val = SubSeq(args.date, p + 1, Len(args.date))]
                /\ pc' = "parse"
                /\ res' = res
    /\ UNCHANGED <<op, args, rm, mm>>

\* nums, order, the two length checks, and the zip into tokens
CmdDateParse ==
    /\ pc = "parse" /\ op = "cmd_date"
    /\ LET nums == FindAllDigits(cd.val, 1, <<>>)
           order == TokenOrder(cd.fmt)
       IN  IF nums = <<>>
           THEN /\ cd' = [cd EXCEPT !.nums = nums,
                             !.stdout = Append(@, <<"Could not parse date string">>)]
                /\ res' = Exit(2)
                /\ pc' = "exited"
           ELSE IF Len(nums) < Len(order)
           THEN /\ cd' = [cd EXCEPT !.nums = nums, !.order = order,
                             !.stdout = Append(@, <<"Not enough date parts in input">>)]
                /\ res' = Exit(2)
                /\ pc' = "exited"
           ELSE /\ cd' = [cd EXCEPT !.nums = nums, !.order = order,
                                    !.tokens = ZipTokens(order, nums)]
                /\ pc' = "convert"
                /\ res' = res
    /\ UNCHANGED <<op, args, rm, mm>>

\* the six int() conversions, jalali_to_datetime and the timestamp
CmdDateConvert ==
    /\ pc = "convert" /\ op = "cmd_date"
    /\ LET ints == [i \in 1..6 |-> PyInt(cd.tokens[DateKeys[i]])]
       IN  IF \E i \in 1..6 : ints[i].kind # "ok"
           THEN /\ res' = Raise("TypeError")
                /\ pc' = "raised"
                /\ cd' = cd
           ELSE LET v == [i \in 1..6 |-> ints[i].val]
                    dt == jalali_to_datetime(v[1], v[2], v[3], v[4], v[5], v[6])
                IN  IF dt.kind # "ok"
                    THEN /\ res' = dt
                         /\ pc' = "raised"
                         /\ cd' = [cd EXCEPT !.parsed = v]
                    ELSE /\ cd' = [cd EXCEPT !.parsed = v,
                                     !.t = Timestamp(dt.val,
                                             IF args.utc THEN 0 ELSE args.local.off)]
                         /\ pc' = "print"
                         /\ res' = res
    /\ UNCHANGED <<op, args, rm, mm>>

\* the base datetime from t and the line printed for args.format
CmdDatePrint ==
    /\ pc = "print" /\ op = "cmd_date"
    /\ LET dt == IF args.utc THEN FromTimestamp(cd.t, 0, UtcZone)
                 ELSE FromTimestamp(cd.t, args.local.off, NoTz)
           out == jstrftime(StripPlus(args.format), dt, args.lang,
                            args.farsi_digits, args.local)
       IN  /\ cd' = [cd EXCEPT !.stdout = Append(@, out)]
           /\ res' = Ok(dt)
           /\ pc' = "done"
    /\ UNCHANGED <<op, args, rm, mm>>

InitDate ==
    /\ pc = "call"
    /\ op = "cmd_date"
    /\ args \in DateInputs
    /\ res = NoResult
    /\ rm = NoFrame
    /\ mm = NoMulti
    /\ cd = NoDate

NextDate ==
    \/ CmdDateSplit
    \/ CmdDateParse
    \/ CmdDateConvert
    \/ CmdDatePrint

SpecDate == InitDate /\ [][NextDate]_vars

\* ------------------------------------------------------- the calculator
\* One call of one conversion function on arguments drawn at start.
ConvOps == {"j2g", "g2j", "is_jalali_leap", "jalali_days_in_month", "jalali_yday"}

ConvInputs ==
    ({"j2g"} \X JYears \X MonthArgs \X DayArgs)
    \cup ({"g2j"} \X GYears \X MonthArgs \X DayArgs)
    \cup ({"is_jalali_leap"} \X JYears \X {12} \X {30})
    \cup ({"jalali_days_in_month"} \X JYears \X MonthArgs \X {1})
    \cup ({"jalali_yday"} \X JYears \X (1..12) \X (1..31))

Init ==
    /\ pc = "call"
    /\ \E i \in ConvInputs : op = i[1] /\ args = <<i[2], i[3], i[4]>>
    /\ res = NoResult
    /\ rm = NoFrame
    /\ mm = NoMulti
    /\ cd = NoDate

CallJ2G ==
    /\ pc = "call" /\ op = "j2g"
    /\ res' = j2g(args[1], args[2], args[3])
    /\ pc' = "done"
    /\ UNCHANGED <<op, args, rm, mm, cd>>

CallG2J ==
    /\ pc = "call" /\ op = "g2j"
    /\ res' = g2j(args[1], args[2], args[3])
    /\ pc' = "done"
    /\ UNCHANGED <<op, args, rm, mm, cd>>

CallIsJalaliLeap ==
    /\ pc = "call" /\ op = "is_jalali_leap"
    /\ res' = Ok(is_jalali_leap(args[1]))
    /\ pc' = "done"
    /\ UNCHANGED <<op, args, rm, mm, cd>>

CallJalaliDaysInMonth ==
    /\ pc = "call" /\ op = "jalali_days_in_month"
    /\ res' = jalali_days_in_month(args[1], args[2])
    /\ pc' = "done"
    /\ UNCHANGED <<op, args, rm, mm, cd>>

CallJalaliYday ==
    /\ pc = "call" /\ op = "jalali_yday"
    /\ res' = Ok(jalali_yday(args[1], args[2], args[3]))
    /\ pc' = "done"
    /\ UNCHANGED <<op, args, rm, mm, cd>>

Next ==
    \/ CallJ2G
    \/ CallG2J
    \/ CallIsJalaliLeap
    \/ CallJalaliDaysInMonth
    \/ CallJalaliYday

Spec == Init /\ [][Next]_vars

\* ================================================================ claims
Done(o) == pc = "done" /\ op = o

\* a Jalali date the program takes as valid: 1 <= m <= 12 and
\* 1 <= d <= jalali_days_in_month(y, m)
ValidJalali(y, m, d) ==
    /\ m \in 1..12
    /\ d >= 1
    /\ d <= jalali_days_in_month(y, m).val

\* length of a Gregorian month (February 29 only in Gregorian leap years)
GregMonthLen(y, m) == IF m = 2 /\ _is_greg_leap(y) THEN 29 ELSE g_md[m]

ValidGregorian(y, m, d) == m \in 1..12 /\ d >= 1 /\ d <= GregMonthLen(y, m)

\* number of days from Farvardin 1 of year y to Farvardin 1 of year y + 1
\* under the conversion
JalaliYearLength(y) == JDayNo(y + 1, 1, 1) - JDayNo(y, 1, 1)

\* C1: for every year in 1300..1450 and every (m, d) with 1 <= m <= 12 and
\* 1 <= d <= jalali_days_in_month(y, m), g2j(j2g(y, m, d)) = (y, m, d).
C1_RoundTrip ==
    (Done("j2g") /\ ValidJalali(args[1], args[2], args[3]))
        => /\ res.kind = "ok"
           /\ g2j(res.val[1], res.val[2], res.val[3]) = Ok(args)

\* C2: the known fixed points: g2j(1979,2,11) = (1357,11,22),
\* j2g(1400,1,1) = (2021,3,21), jalali_days_in_month(1403,12) = 30 and
\* jalali_days_in_month(1404,12) = 29.
C2_FixedPoints ==
    /\ (Done("g2j") /\ args = <<1979, 2, 11>>) => res = Ok(<<1357, 11, 22>>)
    /\ (Done("j2g") /\ args = <<1400, 1, 1>>) => res = Ok(<<2021, 3, 21>>)
    /\ (Done("jalali_days_in_month") /\ args[1] = 1403 /\ args[2] = 12)
          => res = Ok(30)
    /\ (Done("jalali_days_in_month") /\ args[1] = 1404 /\ args[2] = 12)
          => res = Ok(29)

\* Esfand 30 of year y is a date of its own under the conversion: its
\* Gregorian image converts back to (y, 12, 30) and is not Farvardin 1 of
\* year y + 1.
EsfandHas30(y) ==
    LET g == j2g(y, 12, 30)
    IN  /\ g.kind = "ok"
        /\ g2j(g.val[1], g.val[2], g.val[3]) = Ok(<<y, 12, 30>>)
        /\ g # j2g(y + 1, 1, 1)

\* C3: for every year in 1300..1450, is_jalali_leap(y) is true iff Esfand
\* of year y has 30 days under the conversion; otherwise it is false.
C3_LeapAgreesWithConversion ==
    Done("is_jalali_leap") => (res.val <=> EsfandHas30(args[1]))

\* C4: j2g or g2j called with a month outside 1..12 or a day outside
\* 1..(days of that month) yields an error and never a (y, m, d) result.
C4_InvalidInputFailsFast ==
    /\ (Done("j2g") /\ ~ValidJalali(args[1], args[2], args[3]))
          => res.kind # "ok"
    /\ (Done("g2j") /\ ~ValidGregorian(args[1], args[2], args[3]))
          => res.kind # "ok"

\* C8: for every valid date (y, m, d), jalali_yday(y, m, d) lies in
\* [0, 364] when y is a 365-day year and in [0, 365] when y is a 366-day
\* year, and jalali_yday(y, 1, 1) = 0.
C8_YdayBounds ==
    (Done("jalali_yday") /\ ValidJalali(args[1], args[2], args[3]))
        => /\ res.val >= 0
           /\ res.val <= JalaliYearLength(args[1]) - 1
           /\ (args[2] = 1 /\ args[3] = 1) => res.val = 0

\* C9: jalali_days_in_month(y, m) is 31 for m in 1..6, 30 for m in 7..11,
\* for m = 12 it is 30 exactly when is_jalali_leap(y) and 29 otherwise, and
\* for m outside 1..12 it raises a range error; is_jalali_leap(y) holds iff
\* jalali_days_in_month(y, 12) = 30.
C9_DaysInMonthRule ==
    /\ Done("jalali_days_in_month") =>
          LET y == args[1]
              m == args[2]
          IN  /\ m \in 1..6 => res = Ok(31)
              /\ m \in 7..11 => res = Ok(30)
              /\ m = 12 => /\ res.kind = "ok"
                           /\ res.val \in {29, 30}
                           /\ (res.val = 30) <=> is_jalali_leap(y)
              /\ m \notin 1..12 => res = Raise("ValueError")
    /\ Done("is_jalali_leap") =>
          (res.val <=> (jalali_days_in_month(args[1], 12) = Ok(30)))

\* the month-12 case of C9 has happened
C9_Witness ==
    /\ Done("jalali_days_in_month")
    /\ args[2] = 12
    /\ res = Ok(30)

\* Jalali weekday index (0 = Saturday) of day d of month (jy, jm)
JalaliWdayOf(jy, jm, d) ==
    LET g == j2g(jy, jm, d).val
    IN  greg_weekday_to_jalali_wday(PyDateWeekday(g[1], g[2], g[3]).val)

\* Jalali weekday index of the configured week start
WeekStartIndex(start_wday) ==
    IF start_wday = "sat" THEN 0 ELSE IF start_wday = "sun" THEN 1 ELSE 2

GridBuilding == op = "render_month" /\ pc \in {"fill", "done"}

\* C5: for start_wday in {sat, sun, mon}, every day placed in the grid is
\* in column (w - s) mod 7, w its Jalali weekday index and s the index of
\* the configured week start; week-start days are in column 0.
C5_GridAnchoring ==
    (GridBuilding /\ args.start_wday \in {"sat", "sun", "mon"}) =>
        \A r \in DOMAIN rm.grid : \A c \in DOMAIN rm.grid[r] :
            rm.grid[r][c] # None =>
                c = (JalaliWdayOf(args.jy, args.jm, rm.grid[r][c])
                       - WeekStartIndex(args.start_wday)) % 7

\* the non-blank cells of the grid as (row-major position, value) pairs
FilledCells ==
    {<<r * 7 + c, rm.grid[r][c]>> : <<r, c>> \in
        {rc \in (0..5) \X (0..6) : rm.grid[rc[1]][rc[2]] # None}}

\* C6: the grid built by render_month for a month m in 1..12 holds exactly
\* jalali_days_in_month(y, m) non-blank cells, their values are 1..that
\* number, each once, increasing in row-major order, and no day is written
\* outside rows 0..5 and columns 0..6.
C6_GridComplete ==
    op = "render_month" =>
        /\ res.kind # "IndexError"
        /\ GridBuilding =>
              /\ DOMAIN rm.grid = 0..5
              /\ \A r \in DOMAIN rm.grid : DOMAIN rm.grid[r] = 0..6
        /\ (pc = "fill" /\ rm.day <= rm.jdm) => (rm.r \in 0..5 /\ rm.c \in 0..6)
        /\ pc = "done" =>
              LET n == jalali_days_in_month(args.jy, args.jm)
              IN  /\ args.jm \in 1..12
                  /\ n.kind = "ok"
                  /\ Cardinality(FilledCells) = n.val
                  /\ {cell[2] : cell \in FilledCells} = 1..n.val
                  /\ \A a \in FilledCells : \A b \in FilledCells :
                        a[1] < b[1] => a[2] < b[2]

\* a complete grid that needed all six rows
C6_Witness ==
    /\ op = "render_month"
    /\ pc = "done"
    /\ rm.grid[5][0] # None
    /\ rm.grid[0][0] = None

\* One left-to-right scan of the pattern: a recognized token is replaced
\* where it stands, anything else is copied; replacement text is not
\* scanned again.
RECURSIVE SinglePass(_, _)
SinglePass(s, mapping) ==
    IF s = <<>> THEN <<>>
    ELSE IF Len(s) >= 2 /\ s[1] = "%" /\ s[2] \in DOMAIN mapping
         THEN mapping[s[2]] \o SinglePass(SubSeq(s, 3, Len(s)), mapping)
         ELSE <<s[1]>> \o SinglePass(Tail(s), mapping)

AsciiDigits == {"0", "1", "2", "3", "4", "5", "6", "7", "8", "9"}

\* the Persian digit glyph of an ASCII digit; any other character unchanged
PersianGlyph(ch) ==
    CASE ch = "0" -> "U+06F0" [] ch = "1" -> "U+06F1" [] ch = "2" -> "U+06F2"
      [] ch = "3" -> "U+06F3" [] ch = "4" -> "U+06F4" [] ch = "5" -> "U+06F5"
      [] ch = "6" -> "U+06F6" [] ch = "7" -> "U+06F7" [] ch = "8" -> "U+06F8"
      [] ch = "9" -> "U+06F9" [] OTHER -> ch

WithPersianDigits(s) == [i \in 1..Len(s) |-> PersianGlyph(s[i])]

\* C7: jstrftime's output is the result of one left-to-right scan that
\* replaces each recognized token where it stands and copies the rest
\* (followed by the digit remap when farsi_digits is set); so `%%` yields
\* `%` and the pattern `%%Y` yields `%Y`.
C7_SinglePassSubstitution ==
    Done("jstrftime") =>
        LET plain == SinglePass(args.fmt, Mapping(args.dt, args.lang, args.local))
        IN  /\ res.val = IF args.farsi_digits THEN WithPersianDigits(plain) ELSE plain
            /\ args.fmt = <<"%", "%", "Y">> => res.val = <<"%", "Y">>

\* C10: with farsi_digits set the output has no ASCII digit and equals the
\* output with farsi_digits unset with every ASCII digit replaced by its
\* Persian digit and every other character unchanged.
C10_FarsiDigits ==
    (Done("jstrftime") /\ args.farsi_digits) =>
        /\ \A i \in 1..Len(res.val) : res.val[i] \notin AsciiDigits
        /\ res.val = WithPersianDigits(
              jstrftime(args.fmt, args.dt, args.lang, FALSE, args.local))

\* a formatted string whose digits come both from a token and from literal
\* text, and contain a 9
C10_Witness ==
    /\ Done("jstrftime")
    /\ args.farsi_digits
    /\ args.fmt = <<"7", "%", "Y">>
    /\ res.val = <<"U+06F7", "U+06F1", "U+06F3", "U+06F9", "U+06F0">>

\* the n-th line of a block whose lines are ls, empty below its last line
LineOrEmpty(ls, n) == IF n <= Len(ls) THEN ls[n] ELSE <<>>

\* C11: for jm in 1..12 and count >= 1, block i (i = 0..count-1) of
\* render_multi_month is month ((jm + i - 1) mod 12) + 1 of year
\* jy + floor((jm + i - 1) / 12); the result has as many lines as the
\* tallest block, each the blocks' lines joined by exactly `margin` spaces.
C11_MonthWrap ==
    (op = "render_multi_month" /\ args.jm \in 1..12 /\ args.count >= 1) =>
        /\ pc # "raised"
        /\ Len(mm.blocks) = Len(mm.months)
        /\ \A i \in 0..(Len(mm.months) - 1) :
              mm.months[i + 1] = <<args.jy + ((args.jm + i - 1) \div 12),
                                   ((args.jm + i - 1) % 12) + 1>>
        /\ pc = "done" =>
              LET n == Len(mm.blocks)
                  ls == SplitAll(mm.blocks)
                  heights == {Len(ls[k]) : k \in 1..n}
                  H == CHOOSE h \in heights : \A g \in heights : g <= h
                  lines == SplitLines(res.val)
                  margin == [k \in 1..args.margin |-> " "]
              IN  /\ n = args.count
                  /\ Len(lines) = H
                  /\ \A ln \in 1..H :
                        \A k \in 1..n :
                            LET before ==
                                    Len(StrJoin(margin, [q \in 1..(k - 1) |-> LineOrEmpty(ls[q], ln)]))
                                    + (IF k > 1 THEN args.margin ELSE 0)
                                line == LineOrEmpty(ls[k], ln)
                            IN  /\ SubSeq(lines[ln], before + 1, before + Len(line)) = line
                                /\ k > 1 => SubSeq(lines[ln], before - args.margin + 1, before) = margin
                                /\ k = n => Len(lines[ln]) = before + Len(line)

\* a layout that ran past the end of the year twice
C11_Witness ==
    /\ op = "render_multi_month"
    /\ pc = "done"
    /\ args.jm = 12
    /\ args.count = 14
    /\ args.margin = 2
    /\ mm.months[2] = <<args.jy + 1, 1>>
    /\ mm.months[14] = <<args.jy + 2, 1>>

\* the place of the first "%" k in fmt, 0 when fmt has none
TokenPos(fmt, k) ==
    IF HasToken(fmt, k)
    THEN CHOOSE i \in 1..(Len(fmt) - 1) :
             /\ fmt[i] = "%" /\ fmt[i + 1] = k
             /\ \A j \in 1..(i - 1) : ~(fmt[j] = "%" /\ fmt[j + 1] = k)
    ELSE 0

\* the date and time tokens present in fmt
TokensIn(fmt) == {k \in {"Y", "m", "d", "H", "M", "S"} : HasToken(fmt, k)}

\* k is the n-th token of fmt, counting the tokens in the order they appear
AppearanceRank(fmt, k) ==
    Cardinality({q \in TokensIn(fmt) : TokenPos(fmt, q) <= TokenPos(fmt, k)})

\* C12: in cmd_date's -d FMT;STRING branch the k-th numeric run of STRING
\* goes to the k-th of %Y, %m, %d, %H, %M, %S in the order they appear in
\* FMT, and tokens absent from FMT take no run (%d/%m/%Y;17/03/1390 gives
\* year 1390, month 3, day 17); with fewer runs than tokens the command
\* exits with a non-zero status and converts nothing.
C12_ParsingOrder ==
    op = "cmd_date" =>
        /\ pc \in {"convert", "print", "done", "raised"} =>
              \A k \in {"Y", "m", "d", "H", "M", "S"} :
                  IF k \in TokensIn(cd.fmt)
                  THEN cd.tokens[k] = cd.nums[AppearanceRank(cd.fmt, k)]
                  ELSE cd.tokens[k] = (IF k \in {"Y", "m", "d"} THEN NoneTok ELSE <<"0">>)
        /\ (/\ pc \in {"print", "done"}
            /\ cd.fmt = <<"%", "d", "/", "%", "m", "/", "%", "Y">>
            /\ cd.val = <<"1", "7", "/", "0", "3", "/", "1", "3", "9", "0">>) =>
              SubSeq(cd.parsed, 1, 3) = <<1390, 3, 17>>
        /\ (/\ pc \notin {"call", "parse"}
            /\ Len(FindAllDigits(cd.val, 1, <<>>)) < Cardinality(TokensIn(cd.fmt))) =>
              /\ pc = "exited"
              /\ res.kind = "SystemExit" /\ res.val[1] # 0
              /\ cd.parsed = <<>>
              /\ Len(cd.stdout) = 1

\* C13: for every valid Gregorian date (gy, gm, gd) with gy in 1900..2100,
\* g2j returns a month in 1..12 and a day in 1..31 (at most 30 in months
\* 7..12), and j2g of the result is (gy, gm, gd) again, so no two Gregorian
\* days share a Jalali date.
C13_InverseRoundTrip ==
    (/\ Done("g2j")
     /\ args[1] \in MinGYear..MaxGYear
     /\ ValidGregorian(args[1], args[2], args[3])) =>
        /\ res.kind = "ok"
        /\ res.val[2] \in 1..12
        /\ res.val[3] \in 1..31
        /\ res.val[2] >= 7 => res.val[3] <= 30
        /\ j2g(res.val[1], res.val[2], res.val[3]) = Ok(args)

\* the conversion of a Gregorian leap day and of the day before Nowruz 1400
C13_Witness ==
    \/ Done("g2j") /\ args = <<2024, 2, 29>> /\ res = Ok(<<1402, 12, 10>>)
    \/ Done("g2j") /\ args = <<2021, 3, 20>> /\ res = Ok(<<1399, 12, 30>>)

====
